---- MODULE Spec2Model ----
(***************************************************************************)
(* Model of scram's FaultTree (AddGate, Validate, CheckCyclicity,          *)
(* GatherPrimaryEvents, GetPrimaryEvents) and of ext::combination_iterator.*)
(***************************************************************************)
EXTENDS Integers, Sequences, FiniteSets, TLC

VARIABLES
  children,         \* Gate::children_ of every gate: gate id -> set of child ids
  top_event_,       \* FaultTree::top_event_ (the gate held, NoGate when null)
  top_event_id_,    \* FaultTree::top_event_id_
  inter_events_,    \* FaultTree::inter_events_, in its current iteration order
  implicit_gates_,  \* FaultTree::implicit_gates_
  primary_events_,  \* FaultTree::primary_events_
  basic_events_,    \* FaultTree::basic_events_
  house_events_,    \* FaultTree::house_events_
  result,           \* outcome of the last FaultTree call
  registered,       \* history: number of AddGate calls that registered each gate
  nvalidate,        \* history: consecutive Validate calls since the last other call
  source,           \* the range [first1, last1) given to the combination generator
  k,                \* the number of elements to choose
  bitmask_,         \* combination_iterator::bitmask_
  yielded,          \* the combinations dereferenced so far
  masks,            \* history: the position sets selected so far
  rng1,             \* the first sorted range given to ext::intersects
  rng2,             \* the second sorted range given to ext::intersects
  first1,           \* intersects: position of the iterator first1 in rng1
  first2,           \* intersects: position of the iterator first2 in rng2
  ret,              \* intersects: "running", or the value returned
  expr,             \* the expression under evaluation and its arguments
  value             \* the Min(), Mean() and Max() it returned

ftVars == <<children, top_event_, top_event_id_, inter_events_, implicit_gates_,
            primary_events_, basic_events_, house_events_, result, registered,
            nvalidate>>
combVars == <<source, k, bitmask_, yielded, masks>>
intVars == <<rng1, rng2, first1, first2, ret>>
exprVars == <<expr, value>>
vars == <<children, top_event_, top_event_id_, inter_events_, implicit_gates_,
          primary_events_, basic_events_, house_events_, result, registered,
          nvalidate, source, k, bitmask_, yielded, masks,
          rng1, rng2, first1, first2, ret, expr, value>>

----------------------------------------------------------------------------
(* Bounds *)

\* Largest number of parent/child links built into the event graph.
MaxLinks == 4

\* Largest length of the source range of the combination generator.
MaxN == 4

\* Largest length of a range given to ext::intersects.
MaxLen == 3

\* Largest value of an element of a range given to ext::intersects.
MaxVal == 3

\* Largest value of the Min(), Mean() and Max() of an expression argument.
MaxParam == 2

----------------------------------------------------------------------------
(* The events of the scope *)

Gates == {"g1", "g2", "g3"}
BasicEvents == {"b1"}
HouseEvents == {"h1"}
\* Events that are neither gates nor primary events (never defined).
UndefinedEvents == {"x1", "x2"}
Events == Gates \cup BasicEvents \cup HouseEvents \cup UndefinedEvents

\* The key order of std::map<std::string, ...>.
SortedIds == <<"b1", "g1", "g2", "g3", "h1", "x1", "x2">>

\* Event::orig_id(): the identifier as the user spelled it.
OrigId(id) ==
  CASE id = "g1" -> "G1" [] id = "g2" -> "G2" [] id = "g3" -> "G3"
    [] id = "b1" -> "B1" [] id = "h1" -> "H1"
    [] id = "x1" -> "X1" [] id = "x2" -> "X2"

\* FaultTree::name_
name_ == "FT"

NoGate == "null"
NoId == ""

Range(s) == {s[i] : i \in 1..Len(s)}

\* All iteration orders of an unordered container holding the set S.
Orders(S) ==
  {f \in [1..Cardinality(S) -> S] : \A i, j \in 1..Cardinality(S) : f[i] = f[j] => i = j}

\* The children of a gate in the order std::map iterates them.
SortedChildren(gate) == SelectSeq(SortedIds, LAMBDA e : e \in children[gate])

\* Event::parents(): the gates that hold the event as a child.
Parents(event) == {g \in Gates : event \in children[g]}

\* boost::dynamic_pointer_cast<Gate>(event) is not null.
IsGate(event) == event \in Gates

\* boost::dynamic_pointer_cast<PrimaryEvent>(event) is not null, mutated:
\* every non-gate child is taken for a primary event.
IsPrimaryEventUnchecked(event) == TRUE

\* boost::dynamic_pointer_cast<PrimaryEvent>(event) is not null.
IsPrimaryEvent(event) == event \in BasicEvents \cup HouseEvents

\* boost::dynamic_pointer_cast<BasicEvent>(primary_event) is not null.
IsBasicEvent(event) == event \in BasicEvents

InterSet == Range(inter_events_)

NoResult == [op |-> "none", gate |-> NoGate, outcome |-> "ok", kind |-> "none",
             msg |-> <<>>, tree |-> "", path |-> <<>>, depth |-> 0]

----------------------------------------------------------------------------
(* FaultTree::AddGate *)

\* The duplicate test of AddGate, mutated: no test.
IsDoublyDefinedNever(gate) == FALSE

\* inter_events_.count(gate->id()) || gate->id() == top_event_id_
IsDoublyDefined(gate) == gate \in InterSet \/ gate = top_event_id_

\* The parent search of AddGate, mutated: any gate passes.
ParentFoundAlways(gate) == TRUE

\* The loop over parents: some parent is in inter_events_ or is the top gate.
ParentFound(gate) ==
  \E p \in Parents(gate) : p \in InterSet \/ top_event_id_ = p

\* The iteration orders inter_events_ may have after the DFS or an insert,
\* mutated: the order is drawn anew even when nothing was inserted.
OrderAfterAnew(order, S) == Orders(S)

\* The iteration orders inter_events_ may have once it holds the set S:
\* an insert may rehash and reorder, no insert keeps the order.
OrderAfter(order, S) == IF S = Range(order) THEN {order} ELSE Orders(S)

AddGateError(gate, kind) ==
  [op |-> "AddGate", gate |-> gate, outcome |-> "ValidationError",
   kind |-> kind, msg |-> <<OrigId(gate)>>,
   tree |-> IF kind = "no parent" THEN name_ ELSE "", path |-> <<>>,
   depth |-> 0]

\* The keys of inter_events_ when AddGate throws, mutated: the gate is
\* inserted before the checks.
InterOnErrorInserted(gate) == InterSet \cup {gate}

\* The keys of inter_events_ when AddGate throws: the insert comes after the
\* last throw, so the keys are those before the call.
InterOnError(gate) == InterSet

AddGate(gate) ==
  /\ result.outcome # "crash"
  /\ nvalidate' = 0
  /\ UNCHANGED <<children, implicit_gates_, primary_events_, basic_events_,
                 house_events_>>
  /\ UNCHANGED <<combVars, intVars, exprVars>>
  /\ IF top_event_id_ = NoId
     THEN /\ top_event_' = gate
          /\ top_event_id_' = gate
          /\ registered' = [registered EXCEPT ![gate] = @ + 1]
          /\ result' = [NoResult EXCEPT !.op = "AddGate", !.gate = gate]
          /\ UNCHANGED inter_events_
     ELSE IF IsDoublyDefined(gate)
     THEN /\ result' = AddGateError(gate, "doubly defined")
          /\ inter_events_' \in OrderAfter(inter_events_, InterOnError(gate))
          /\ UNCHANGED <<top_event_, top_event_id_, registered>>
     ELSE IF Parents(gate) = {}
     THEN \* parents() throws LogicError
          /\ result' = AddGateError(gate, "dangling")
          /\ inter_events_' \in OrderAfter(inter_events_, InterOnError(gate))
          /\ UNCHANGED <<top_event_, top_event_id_, registered>>
     ELSE IF ~ParentFound(gate)
     THEN /\ result' = AddGateError(gate, "no parent")
          /\ inter_events_' \in OrderAfter(inter_events_, InterOnError(gate))
          /\ UNCHANGED <<top_event_, top_event_id_, registered>>
     ELSE /\ inter_events_' \in OrderAfter(inter_events_, InterSet \cup {gate})
          /\ registered' = [registered EXCEPT ![gate] = @ + 1]
          /\ result' = [NoResult EXCEPT !.op = "AddGate", !.gate = gate]
          /\ UNCHANGED <<top_event_, top_event_id_>>

----------------------------------------------------------------------------
(* FaultTree::CheckCyclicity *)

\* std::find(path.begin(), path.end(), id): the first position holding id.
Find(path, id) == CHOOSE i \in 1..Len(path) : path[i] = id /\ \A j \in 1..(i-1) : path[j] # id

\* The identifiers the diagnostic lists: parent->orig_id() and then, joined by
\* "->", the orig_id() of every path element from std::find's position on.
CycleMessage(parent, path) ==
  <<OrigId(parent)>> \o
  [i \in 1..(Len(path) - Find(path, parent) + 1) |-> OrigId(path[Find(path, parent) + i - 1])]

\* assert(inter_events_.count(*it)) for every listed path element.
CycleAssert(parent, path, inter) ==
  \A i \in Find(path, parent)..Len(path) : path[i] \in inter

\* The visited set the next sibling's call gets, mutated: visited is shared
\* by reference, so the sibling sees what the earlier subtree visited.
SiblingVisitedShared(visited, returned) == returned

\* The visited set the next sibling's call gets: the parameter is passed by
\* value, so what an earlier subtree visited is forgotten.
SiblingVisited(visited, returned) == visited

\* implicit_gates_ after meeting a gate child, mutated: inserted always.
DiscoverImplicitAlways(child, inter, implicit) == implicit \cup {child}

\* implicit_gates_ after meeting a gate child: inserted if not in inter_events_.
DiscoverImplicit(child, inter, implicit) ==
  IF child \notin inter THEN implicit \cup {child} ELSE implicit

\* inter_events_ after meeting a gate child (insert keeps an existing key).
DiscoverInter(child, inter) == inter \cup {child}

\* The visited set of a call, mutated: the gate the search starts from is
\* not marked.
MarkVisitedButFirst(parent, path, visited) ==
  IF path = <<>> THEN visited ELSE visited \cup {parent}

\* visited.insert(parent->id()) in the call with the given path.
MarkVisited(parent, path, visited) == visited \cup {parent}

RECURSIVE CheckCyclicity(_, _, _, _, _)
RECURSIVE CheckChildren(_, _, _, _, _, _)

\* The call CheckCyclicity(parent, path, visited) with inter_events_ = inter and
\* implicit_gates_ = implicit: whether it throws, and the members afterwards.
\* depth is the deepest nesting of calls that happened.
CheckCyclicity(parent, path, visited, inter, implicit) ==
  LET path2 == Append(path, parent) IN
  IF parent \in visited
  THEN [err |-> TRUE, msg |-> CycleMessage(parent, path2), path |-> path2,
        assertOk |-> CycleAssert(parent, path2, inter),
        visited |-> visited, inter |-> inter, implicit |-> implicit,
        depth |-> Len(path2)]
  ELSE CheckChildren(SortedChildren(parent), 1, path2,
                     MarkVisited(parent, path, visited), inter, implicit)

\* The loop over children from position i on.
CheckChildren(kids, i, path, visited, inter, implicit) ==
  IF i > Len(kids)
  THEN [err |-> FALSE, msg |-> <<>>, path |-> <<>>, assertOk |-> TRUE,
        visited |-> visited, inter |-> inter, implicit |-> implicit,
        depth |-> Len(path)]
  ELSE IF ~IsGate(kids[i])
  THEN CheckChildren(kids, i + 1, path, visited, inter, implicit)
  ELSE LET r == CheckCyclicity(kids[i], path, visited,
                               DiscoverInter(kids[i], inter),
                               DiscoverImplicit(kids[i], inter, implicit))
       IN IF r.err
          THEN r
          ELSE LET rest == CheckChildren(kids, i + 1, path,
                                         SiblingVisited(visited, r.visited),
                                         r.inter, r.implicit)
               IN [rest EXCEPT !.depth = IF r.depth > @ THEN r.depth ELSE @]

----------------------------------------------------------------------------
(* FaultTree::GetPrimaryEvents, FaultTree::GatherPrimaryEvents *)

RECURSIVE GetChildren(_, _, _, _)

\* The loop of GetPrimaryEvents over the children from position i on; acc holds
\* primary_events_, basic_events_, house_events_ and the error thrown, if any.
GetChildren(kids, i, inter, acc) ==
  IF i > Len(kids) THEN acc
  ELSE IF kids[i] \in inter THEN GetChildren(kids, i + 1, inter, acc)
  ELSE IF ~IsPrimaryEvent(kids[i])
  THEN [acc EXCEPT !.err = TRUE, !.node = kids[i]]
  ELSE GetChildren(kids, i + 1, inter,
         [acc EXCEPT !.primary = @ \cup {kids[i]},
                     !.basic = IF IsBasicEvent(kids[i]) THEN @ \cup {kids[i]} ELSE @,
                     !.house = IF IsBasicEvent(kids[i]) THEN @ ELSE @ \cup {kids[i]}])

GetPrimaryEvents(gate, inter, acc) == GetChildren(SortedChildren(gate), 1, inter, acc)

\* The gates GatherPrimaryEvents scans, mutated: the top gate is left out.
GatherOrderNoTop(top, order) == order

\* The gates GatherPrimaryEvents scans: the top gate, then inter_events_ in
\* its iteration order.
GatherOrder(top, order) == <<top>> \o order

RECURSIVE GatherFrom(_, _, _, _)
GatherFrom(gates, j, inter, acc) ==
  IF j > Len(gates) \/ acc.err THEN acc
  ELSE GatherFrom(gates, j + 1, inter, GetPrimaryEvents(gates[j], inter, acc))

GatherPrimaryEvents(top, order, acc) ==
  GatherFrom(GatherOrder(top, order), 1, Range(order), acc)

----------------------------------------------------------------------------
(* FaultTree::Validate *)

\* The members and the outcome after Validate, when the DFS gave dfs and
\* inter_events_ then iterates in the given order.
ValidateWith(dfs, order) ==
  IF dfs.err
  THEN [inter |-> order, implicit |-> dfs.implicit, primary |-> primary_events_,
        basic |-> basic_events_, house |-> house_events_,
        result |-> [op |-> "Validate", gate |-> NoGate,
                    outcome |-> IF dfs.assertOk THEN "ValidationError" ELSE "crash",
                    kind |-> "cycle", msg |-> dfs.msg, tree |-> name_,
                    path |-> dfs.path, depth |-> dfs.depth]]
  ELSE LET g == GatherPrimaryEvents(top_event_, order,
                  [err |-> FALSE, node |-> NoId, primary |-> {},
                   basic |-> basic_events_, house |-> house_events_])
       IN [inter |-> order, implicit |-> dfs.implicit, primary |-> g.primary,
           basic |-> g.basic, house |-> g.house,
           result |-> IF g.err
                      THEN [op |-> "Validate", gate |-> NoGate,
                            outcome |-> "ValidationError", kind |-> "undefined",
                            msg |-> <<OrigId(g.node)>>, tree |-> name_,
                            path |-> <<>>, depth |-> dfs.depth]
                      ELSE [NoResult EXCEPT !.op = "Validate",
                                            !.depth = dfs.depth]]

\* The DFS of Validate from the current state.
ValidateDfs == CheckCyclicity(top_event_, <<>>, {}, InterSet, implicit_gates_)

Validate ==
  /\ result.outcome # "crash"
  /\ top_event_ # NoGate
  /\ LET dfs == ValidateDfs IN
     \E order \in OrderAfter(inter_events_, dfs.inter) :
       LET v == ValidateWith(dfs, order) IN
       /\ inter_events_' = v.inter
       /\ implicit_gates_' = v.implicit
       /\ primary_events_' = v.primary
       /\ basic_events_' = v.basic
       /\ house_events_' = v.house
       /\ result' = v.result
  /\ nvalidate' = IF nvalidate < 2 THEN nvalidate + 1 ELSE 2
  /\ UNCHANGED <<children, top_event_, top_event_id_, registered>>
  /\ UNCHANGED <<combVars, intVars, exprVars>>

\* Validate before any AddGate: top_event_ is null and CheckCyclicity
\* dereferences it.
ValidateNoTop ==
  /\ result.outcome # "crash"
  /\ top_event_ = NoGate
  /\ result' = [NoResult EXCEPT !.op = "Validate", !.outcome = "crash",
                                !.kind = "null top"]
  /\ nvalidate' = 0
  /\ UNCHANGED <<children, top_event_, top_event_id_, inter_events_,
                 implicit_gates_, primary_events_, basic_events_, house_events_,
                 registered>>
  /\ UNCHANGED <<combVars, intVars, exprVars>>

----------------------------------------------------------------------------
(* Building the event graph: Gate::AddChild with Event::AddParent *)

\* The number of parent/child links built so far.
NumLinks ==
  Cardinality(children["g1"]) + Cardinality(children["g2"]) + Cardinality(children["g3"])

\* The parent/child links the input may ask for.
PossibleLinks ==
  {<<"g1", "g2">>, <<"g1", "g3">>, <<"g2", "g3">>, <<"g2", "g1">>, <<"g3", "g1">>,
   <<"g3", "g2">>, <<"g3", "g3">>,
   <<"g1", "b1">>, <<"g2", "h1">>, <<"g2", "x1">>, <<"g3", "x2">>}

AddChild(gate, event) ==
  /\ result.outcome # "crash"
  /\ NumLinks < MaxLinks
  /\ event \notin children[gate]
  /\ children' = [children EXCEPT ![gate] = @ \cup {event}]
  /\ result' = [NoResult EXCEPT !.op = "AddChild"]
  /\ nvalidate' = 0
  /\ UNCHANGED <<top_event_, top_event_id_, inter_events_, implicit_gates_,
                 primary_events_, basic_events_, house_events_, registered>>
  /\ UNCHANGED <<combVars, intVars, exprVars>>

----------------------------------------------------------------------------
(* The fault tree specification *)

CombIdle ==
  /\ source = <<>>
  /\ k = 0
  /\ bitmask_ = <<>>
  /\ yielded = <<>>
  /\ masks = <<>>

\* No call of ext::intersects is under way.
IntIdle ==
  /\ rng1 = <<>>
  /\ rng2 = <<>>
  /\ first1 = 1
  /\ first2 = 1
  /\ ret = "idle"

\* No expression is under evaluation.
ExprIdle ==
  /\ expr = [kind |-> "none"]
  /\ value = [kind |-> "none"]

TreeInit ==
  /\ children = [g \in Gates |-> {}]
  /\ top_event_ = NoGate
  /\ top_event_id_ = NoId
  /\ inter_events_ = <<>>
  /\ implicit_gates_ = {}
  /\ primary_events_ = {}
  /\ basic_events_ = {}
  /\ house_events_ = {}
  /\ result = NoResult
  /\ registered = [g \in Gates |-> 0]
  /\ nvalidate = 0

Init == TreeInit /\ CombIdle /\ IntIdle /\ ExprIdle

Next ==
  \/ \E link \in PossibleLinks : AddChild(link[1], link[2])
  \/ \E gate \in Gates : AddGate(gate)
  \/ Validate
  \/ ValidateNoTop

Spec == Init /\ [][Next]_vars

TypeOK ==
  /\ children \in [Gates -> SUBSET Events]
  /\ top_event_ \in Gates \cup {NoGate}
  /\ top_event_id_ \in Gates \cup {NoId}
  /\ InterSet \subseteq Gates
  /\ implicit_gates_ \subseteq Gates
  /\ primary_events_ \subseteq Events

----------------------------------------------------------------------------
(* The gate graph *)

GateChildren(gate) == children[gate] \cap Gates

RECURSIVE Closure(_)
\* The gates reachable from the gates of S through child links, S included.
Closure(S) ==
  LET T == S \cup UNION {GateChildren(g) : g \in S}
  IN IF T = S THEN S ELSE Closure(T)

\* The gates reachable from the top gate, the top gate included.
Reachable == IF top_event_ = NoGate THEN {} ELSE Closure({top_event_})

\* The gate is reachable from itself through one or more child links.
OnCycle(gate) == gate \in Closure(GateChildren(gate))

ValidateReturned == result.op = "Validate" /\ result.outcome # "crash"
ValidateOk == result.op = "Validate" /\ result.outcome = "ok"

\* The gates GatherPrimaryEvents scans.
TreeGates == {top_event_} \cup InterSet

----------------------------------------------------------------------------
(* Claims *)

\* C1: the cycle check of Validate raises ValidationError if and only if some
\* gate reachable from the top gate is reachable from itself; a gate shared by
\* two parents raises nothing.
C1_CycleErrorIffCycle ==
  ValidateReturned =>
    (result.kind = "cycle" <=> \E g \in Reachable : OnCycle(g))

\* C1 witness: Validate ran its DFS to the end over a gate that is a child of
\* two different reachable gates.
C1_Witness ==
  /\ ValidateReturned
  /\ result.kind # "cycle"
  /\ \E g \in Reachable : \E p, q \in Reachable : p # q /\ g \in children[p] /\ g \in children[q]

\* C2: the cycle diagnostic lists exactly the path from the first occurrence of
\* the repeated gate to its repeat, by original identifier and in path order.
C2_MessageIsCyclePath ==
  (result.op = "Validate" /\ result.kind = "cycle") =>
    LET path == result.path
        first == Find(path, path[Len(path)])
    IN result.msg = [i \in 1..(Len(path) - first + 1) |-> OrigId(path[first + i - 1])]

\* C3: after a Validate that returns without error every gate reachable from
\* the top gate, other than the top gate, is in inter_events_, and
\* implicit_gates_ holds exactly the reachable gates AddGate never registered.
C3_ImplicitGatesDiscovered ==
  ValidateOk =>
    /\ Reachable \ {top_event_} \subseteq InterSet
    /\ implicit_gates_ = {g \in Reachable : registered[g] = 0}

\* C3 witness: a Validate without error over a tree with a registered gate and
\* a gate found by the DFS.
C3_Witness ==
  /\ ValidateOk
  /\ implicit_gates_ # {}
  /\ \E g \in InterSet : registered[g] = 1

\* The children of the scanned gates that are neither a gate of inter_events_
\* nor a primary event.
UndefinedChildren ==
  {c \in UNION {children[g] : g \in TreeGates} :
     c \notin InterSet /\ c \notin BasicEvents \cup HouseEvents}

\* C4: after the DFS, Validate raises ValidationError naming the child and the
\* tree whenever a scanned gate has a child that is neither a gate of
\* inter_events_ nor a primary event; without error every leaf under the top
\* gate is a primary event.
C4_UndefinedLeafRejected ==
  (ValidateReturned /\ result.kind # "cycle") =>
    /\ UndefinedChildren # {} =>
         /\ result.outcome = "ValidationError"
         /\ result.kind = "undefined"
         /\ \E c \in UndefinedChildren : result.msg = <<OrigId(c)>>
         /\ result.tree = name_
    /\ result.outcome = "ok" =>
         \A g \in Reachable : children[g] \ Gates \subseteq BasicEvents \cup HouseEvents

\* C4 witness: Validate raised the error for an undefined child of a gate that
\* the DFS had found.
C4_Witness ==
  /\ ValidateReturned
  /\ result.kind = "undefined"
  /\ \E g \in implicit_gates_ : children[g] \cap UndefinedEvents # {}

\* C5: after every Validate without error primary_events_ is exactly the set of
\* primary events that are children of the scanned gates, and basic_events_ and
\* house_events_ partition it.
C5_PrimaryEventsPartition ==
  ValidateOk =>
    /\ primary_events_ =
         {c \in BasicEvents \cup HouseEvents : \E g \in TreeGates : c \in children[g]}
    /\ basic_events_ \cap house_events_ = {}
    /\ basic_events_ \cup house_events_ = primary_events_

\* C5 witness: a Validate without error, later than an earlier Validate (only
\* that one can have put the parents of a registered gate into inter_events_),
\* over a tree holding a basic and a house event.
C5_Witness ==
  /\ ValidateOk
  /\ basic_events_ # {}
  /\ house_events_ # {}
  /\ \E g \in InterSet :
       registered[g] = 1 /\ Parents(g) # {} /\ Parents(g) \subseteq implicit_gates_

\* C6: a Validate right after a Validate, the tree unchanged in between, has
\* the same outcome and leaves the five indexes as they were.
C6_ValidateTwiceNoOp ==
  [][(nvalidate >= 1 /\ nvalidate' = 2) =>
       /\ result' = result
       /\ inter_events_' = inter_events_
       /\ implicit_gates_' = implicit_gates_
       /\ primary_events_' = primary_events_
       /\ basic_events_' = basic_events_
       /\ house_events_' = house_events_]_vars

\* C6 witness: a second Validate in a row that raised the error for an
\* undefined node, with two gates in inter_events_.
C6_Witness ==
  /\ nvalidate = 2
  /\ result.kind = "undefined"
  /\ Len(inter_events_) >= 2

\* C7: no identifier is registered twice by AddGate, and a rejected duplicate
\* is the top gate or a key of inter_events_.
C7_NoDoubleDefinition ==
  /\ \A g \in Gates : registered[g] <= 1
  /\ (result.op = "AddGate" /\ result.kind = "doubly defined") =>
       /\ result.outcome = "ValidationError"
       /\ result.gate = top_event_id_ \/ result.gate \in InterSet

\* C7 witness: AddGate rejected a gate that is a key of inter_events_.
C7_Witness ==
  /\ result.op = "AddGate"
  /\ result.kind = "doubly defined"
  /\ result.gate \in InterSet

\* C8: a gate registered after the top gate has a parent that is the top gate
\* or is in inter_events_; a gate without parents, or with none registered, is
\* rejected and not inserted.
C8_NoDanglingGate ==
  /\ \A g \in Gates :
       (registered[g] >= 1 /\ g # top_event_id_) =>
         \E p \in Gates : g \in children[p] /\ (p = top_event_id_ \/ p \in InterSet)
  /\ (result.op = "AddGate" /\ result.gate # top_event_id_
        /\ ~\E p \in Gates : result.gate \in children[p]
                              /\ (p = top_event_id_ \/ p \in InterSet)) =>
       /\ result.outcome = "ValidationError"
       /\ result.gate \notin InterSet

\* C8 witness: AddGate rejected a gate that has parents, none of them registered.
C8_Witness ==
  /\ result.op = "AddGate"
  /\ result.kind = "no parent"
  /\ Parents(result.gate) # {}
  /\ result.gate \notin InterSet

\* C9: the diagnostic of Validate does not depend on the iteration order of
\* inter_events_: whatever order the index iterates in, the same node is named.
C9_DiagnosticOrderIndependent ==
  ValidateReturned =>
    \A order \in Orders(InterSet) :
      ValidateWith(ValidateDfs, order).result.msg = result.msg

\* C16: an AddGate call that throws ValidationError leaves the top gate,
\* top_event_id_, inter_events_ and implicit_gates_ as they were before it.
C16_FailedAddGateNoChange ==
  [][(result'.op = "AddGate" /\ result'.outcome = "ValidationError") =>
       UNCHANGED <<top_event_, top_event_id_, inter_events_, implicit_gates_>>]_vars

\* C16 witness: AddGate threw for a gate with no registered parent on a tree
\* that has a top gate and registered gates.
C16_Witness ==
  /\ result.op = "AddGate"
  /\ result.outcome = "ValidationError"
  /\ result.kind = "no parent"
  /\ top_event_ # NoGate
  /\ inter_events_ # <<>>

\* C17: in every reachable state the top gate is neither in inter_events_ nor
\* in implicit_gates_, and implicit_gates_ is a subset of inter_events_.
C17_TopGateKeptApart ==
  /\ top_event_id_ \notin InterSet
  /\ top_event_id_ \notin implicit_gates_
  /\ implicit_gates_ \subseteq InterSet

\* No element occurs twice in the sequence.
NoRepeat(path) ==
  \A i, j \in 1..Len(path) : path[i] = path[j] => i = j

\* C18: Validate returns; the calls of CheckCyclicity nest no deeper than the
\* number of distinct gates reachable from the top gate plus one, a search
\* that finds no cycle nests no deeper than that number, and the cycle error
\* is thrown at the first gate that repeats on the current path.
C18_RecursionDepthBounded ==
  ValidateReturned =>
    /\ result.depth >= 1
    /\ result.depth <= Cardinality(Reachable) + 1
    /\ result.kind # "cycle" => result.depth <= Cardinality(Reachable)
    /\ result.kind = "cycle" =>
         LET path == result.path IN
         /\ Len(path) >= 2
         /\ Len(path) <= result.depth
         /\ NoRepeat(SubSeq(path, 1, Len(path) - 1))
         /\ \E i \in 1..(Len(path) - 1) : path[i] = path[Len(path)]

\* C18 witness: Validate threw the cycle error at the deepest nesting three
\* reachable gates allow.
C18_Witness ==
  /\ ValidateReturned
  /\ result.kind = "cycle"
  /\ Cardinality(Reachable) = 3
  /\ result.depth = 4

----------------------------------------------------------------------------
(* ext::combination_iterator, ext::make_combination_generator *)

\* The values the elements of the source range are drawn from.
Values == {"a", "b"}

Reverse(s) == [i \in 1..Len(s) |-> s[Len(s) + 1 - i]]

Max(S) == CHOOSE x \in S : \A y \in S : y <= x

\* std::prev_permutation, mutated: the tail after the swap is not reversed.
PrevPermutationNoReverse(s) ==
  LET descents == {i \in 1..(Len(s) - 1) : s[i + 1] < s[i]} IN
  IF descents = {}
  THEN [ok |-> FALSE, seq |-> Reverse(s)]
  ELSE LET i == Max(descents)
           j == Max({m \in (i + 1)..Len(s) : s[m] < s[i]})
       IN [ok |-> TRUE, seq |-> [s EXCEPT ![i] = s[j], ![j] = s[i]]]

\* std::prev_permutation on the sequence s: the rearranged sequence and the
\* value returned.
PrevPermutation(s) ==
  LET descents == {i \in 1..(Len(s) - 1) : s[i + 1] < s[i]} IN
  IF descents = {}
  THEN [ok |-> FALSE, seq |-> Reverse(s)]
  ELSE LET i == Max(descents)
           j == Max({m \in (i + 1)..Len(s) : s[m] < s[i]})
           swapped == [s EXCEPT ![i] = s[j], ![j] = s[i]]
       IN [ok |-> TRUE,
           seq |-> SubSeq(swapped, 1, i) \o Reverse(SubSeq(swapped, i + 1, Len(s)))]

\* The bit-mask of the begin iterator, mutated: the last kk bits are set.
InitialMaskAtEnd(n, kk) == [i \in 1..n |-> IF i > n - kk THEN 1 ELSE 0]

\* combination_iterator(k, first1, last1): N zero bits, the first k set to 1.
InitialMask(n, kk) == [i \in 1..n |-> IF i <= kk THEN 1 ELSE 0]

\* combination_iterator(first1): the sentinel has an empty bit-mask.
Sentinel == <<>>

\* increment()
Increment(mask) ==
  IF PrevPermutation(mask).ok THEN PrevPermutation(mask).seq ELSE <<>>

\* equal(): both iterators start at first1 here, so the bit-masks decide.
Equal(mask, other) == mask = other

\* The positions a bit-mask selects.
Selected(mask) == {i \in 1..Len(mask) : mask[i] # 0}

\* dereference(), mutated: the selected elements are pushed to the front.
DereferenceReversed(mask, range) ==
  LET sel == SelectSeq([i \in 1..Len(mask) |-> i], LAMBDA i : mask[i] # 0)
  IN [j \in 1..Len(sel) |-> range[sel[Len(sel) + 1 - j]]]

\* dereference(): the selected elements, pushed back in position order.
Dereference(mask, range) ==
  LET sel == SelectSeq([i \in 1..Len(mask) |-> i], LAMBDA i : mask[i] # 0)
  IN [j \in 1..Len(sel) |-> range[sel[j]]]

\* One turn of the loop over make_combination_generator(k, first, last):
\* while the iterator differs from the sentinel, dereference and increment.
CombinationStep ==
  /\ ~Equal(bitmask_, Sentinel)
  /\ yielded' = Append(yielded, Dereference(bitmask_, source))
  /\ masks' = Append(masks, Selected(bitmask_))
  /\ bitmask_' = Increment(bitmask_)
  /\ UNCHANGED <<source, k>>
  /\ UNCHANGED <<ftVars, intVars, exprVars>>

CombInit ==
  /\ TreeInit
  /\ IntIdle
  /\ ExprIdle
  /\ \E n \in 1..MaxN :
       /\ source \in [1..n -> Values]
       /\ k \in 1..n
       /\ bitmask_ = InitialMask(n, k)
  /\ yielded = <<>>
  /\ masks = <<>>

CombNext == CombinationStep

CombSpec == CombInit /\ [][CombNext]_vars

\* The K-element subsets of the positions of a range of n elements.
KSubsets(n, kk) == {S \in SUBSET (1..n) : Cardinality(S) = kk}

\* C10: iterating from the begin iterator to the sentinel yields every
\* K-element subset of positions exactly once, each combination of size K, and
\* ends equal to the sentinel.
C10_EveryCombinationOnce ==
  /\ \A i, j \in 1..Len(masks) : masks[i] = masks[j] => i = j
  /\ \A i \in 1..Len(masks) : masks[i] \in KSubsets(Len(source), k)
  /\ \A i \in 1..Len(yielded) : Len(yielded[i]) = k
  /\ Equal(bitmask_, Sentinel) =>
       /\ Range(masks) = KSubsets(Len(source), k)
       /\ Len(masks) = Cardinality(KSubsets(Len(source), k))

\* C10 witness: the iteration over a 2-of-4 range reached the sentinel after
\* six combinations.
C10_Witness ==
  /\ Len(source) = 4
  /\ k = 2
  /\ Equal(bitmask_, Sentinel)
  /\ Len(yielded) = 6

\* The strictly increasing position sequences of length kk into a range of n.
IncreasingPositions(n, kk) ==
  {f \in [1..kk -> 1..n] : \A i, j \in 1..kk : i < j => f[i] < f[j]}

\* C11: every combination lists its elements in the relative order they have
\* in the source collection: it is the source read at increasing positions,
\* those its bit-mask selects.
C11_SourceOrderKept ==
  \A c \in 1..Len(yielded) :
    \E f \in IncreasingPositions(Len(source), Len(yielded[c])) :
      /\ Range(f) = masks[c]
      /\ \A j \in 1..Len(f) : yielded[c][j] = source[f[j]]

\* C11 witness: a combination of two different elements that are not
\* neighbours in the source was produced.
C11_Witness ==
  \E c \in 1..Len(yielded) :
    /\ Len(yielded[c]) = 2
    /\ yielded[c][1] # yielded[c][2]
    /\ \E i, j \in masks[c] : j > i + 1

\* The N-bit selection mask of a set of positions.
Bits(S, n) == [i \in 1..n |-> IF i \in S THEN 1 ELSE 0]

\* a comes before b in lexicographic order (same length).
LexLess(a, b) ==
  \E i \in 1..Len(a) : a[i] < b[i] /\ \A j \in 1..(i - 1) : a[j] = b[j]

\* C12: the first combination selects the first K elements, every increment
\* moves to the next selection mask in strictly decreasing lexicographic order
\* (no K-of-N mask lies between two consecutive ones), and the sentinel follows
\* the combination that selects the last K elements.
C12_LexicographicMaskOrder ==
  LET n == Len(source) IN
  /\ Len(masks) >= 1 => masks[1] = 1..k
  /\ \A i \in 1..(Len(masks) - 1) :
       /\ LexLess(Bits(masks[i + 1], n), Bits(masks[i], n))
       /\ ~\E S \in KSubsets(n, k) :
            /\ LexLess(Bits(S, n), Bits(masks[i], n))
            /\ LexLess(Bits(masks[i + 1], n), Bits(S, n))
  /\ (Equal(bitmask_, Sentinel) /\ n > 0) =>
       /\ Len(masks) >= 1
       /\ masks[Len(masks)] = (n - k + 1)..n
  /\ (~Equal(bitmask_, Sentinel) /\ Selected(bitmask_) = (n - k + 1)..n) =>
       Equal(Increment(bitmask_), Sentinel)

\* C12 witness: the 2-of-4 iteration passed from the mask 1100 to 1010 and on,
\* down to 0011, and reached the sentinel.
C12_Witness ==
  /\ Len(source) = 4
  /\ k = 2
  /\ Equal(bitmask_, Sentinel)
  /\ Len(masks) = 6
  /\ masks[2] = {1, 3}
  /\ masks[6] = {3, 4}

----------------------------------------------------------------------------
(* ext::intersects *)

\* The sorted (ascending, repeats allowed) ranges of at most MaxLen elements.
SortedRanges ==
  UNION {{r \in [1..n -> 1..MaxVal] : \A i \in 1..(n - 1) : r[i] <= r[i + 1]} :
         n \in 0..MaxLen}

\* *first1 < *first2, mutated: <= in place of <.
FirstLessOrEqual(a, b) == a <= b

\* *first1 < *first2
FirstLess(a, b) == a < b

\* *first2 < *first1
SecondLess(a, b) == b < a

\* One turn of the while loop of intersects, or its return.
IntersectsStep ==
  /\ ret = "running"
  /\ IF first1 # Len(rng1) + 1 /\ first2 # Len(rng2) + 1
     THEN IF FirstLess(rng1[first1], rng2[first2])
          THEN first1' = first1 + 1 /\ UNCHANGED <<first2, ret>>
          ELSE IF SecondLess(rng1[first1], rng2[first2])
          THEN first2' = first2 + 1 /\ UNCHANGED <<first1, ret>>
          ELSE ret' = "true" /\ UNCHANGED <<first1, first2>>
     ELSE ret' = "false" /\ UNCHANGED <<first1, first2>>
  /\ UNCHANGED <<rng1, rng2>>
  /\ UNCHANGED <<ftVars, combVars, exprVars>>

\* intersects(rng1, rng2): the range version starts the iterator version at
\* boost::begin of both ranges.
IntInit ==
  /\ TreeInit
  /\ CombIdle
  /\ ExprIdle
  /\ rng1 \in SortedRanges
  /\ rng2 \in SortedRanges
  /\ first1 = 1
  /\ first2 = 1
  /\ ret = "running"

IntNext == IntersectsStep

IntSpec == IntInit /\ [][IntNext]_vars

\* C13: for two ranges sorted in ascending order, empty ones included,
\* intersects returns true if and only if some value occurs in both.
C13_IntersectsIffCommonValue ==
  /\ ret = "true" => Range(rng1) \cap Range(rng2) # {}
  /\ ret = "false" => Range(rng1) \cap Range(rng2) = {}

\* C13 witness: intersects returned true after advancing in both ranges.
C13_Witness ==
  /\ ret = "true"
  /\ first1 > 1
  /\ first2 > 1

----------------------------------------------------------------------------
(* ExponentialExpression, WeibullExpression *)

\* An argument expression by its Min(), Mean() and Max(), Min <= Mean <= Max.
Intervals(S) ==
  {[min |-> a, mean |-> b, max |-> c] : <<a, b, c>> \in
     {t \in S \X S \X S : t[1] <= t[2] /\ t[2] <= t[3]}}

\* An argument the expression does not have.
NoArg == [min |-> 0, mean |-> 0, max |-> 0]

RECURSIVE Pow(_, _)
\* std::pow for a non-negative integer exponent.
Pow(b, e) == IF e = 0 THEN 1 ELSE b * Pow(b, e - 1)

\* The values an expression returns are 1 - exp(-y) with y >= 0 a fraction
\* num/den: they are kept as y, for 1 - exp(-y) grows strictly with y, is 0
\* at y = 0 and stays below 1.
Fraction(n, d) == [num |-> n, den |-> d]

\* x <= y for two returned values.
Leq(x, y) == x.num * y.den <= y.num * x.den

\* The returned value lies in [0, 1].
InUnitInterval(x) == x.num >= 0 /\ x.den > 0

\* 1 - std::exp(-(lambda * time))
ExponentialCompute(lambda, time) == Fraction(lambda * time, 1)

\* ExponentialExpression::Max(), mutated: the least rate is taken.
ExponentialMaxOfMinRate(e) == ExponentialCompute(e.lambda.min, e.time.max)

ExponentialMean(e) == ExponentialCompute(e.lambda.mean, e.time.mean)
ExponentialMax(e) == ExponentialCompute(e.lambda.max, e.time.max)
ExponentialMin(e) == ExponentialCompute(e.lambda.min, e.time.min)

\* WeibullExpression::Compute: 1 - exp(-((time - t0) / alpha)^beta)
WeibullCompute(alpha, beta, t0, time) ==
  Fraction(Pow(time - t0, beta), Pow(alpha, beta))

WeibullMean(e) == WeibullCompute(e.alpha.mean, e.beta.mean, e.t0.mean, e.time.mean)
WeibullMax(e) == WeibullCompute(e.alpha.min, e.beta.max, e.t0.min, e.time.max)
WeibullMin(e) == WeibullCompute(e.alpha.max, e.beta.min, e.t0.max, e.time.min)

\* The exponential expressions with non-negative arguments.
ExponentialExpressions ==
  {[kind |-> "exponential", lambda |-> l, alpha |-> NoArg, beta |-> NoArg,
    t0 |-> NoArg, time |-> t] :
     l \in Intervals(0..MaxParam), t \in Intervals(0..MaxParam)}

\* The Weibull expressions with arguments in the valid domain: alpha > 0,
\* beta > 0 and time >= t0 for all argument values.
WeibullExpressions ==
  {e \in {[kind |-> "weibull", lambda |-> NoArg, alpha |-> a, beta |-> b,
           t0 |-> s, time |-> t] :
            a \in Intervals(1..MaxParam), b \in Intervals(1..MaxParam),
            s \in Intervals(0..MaxParam), t \in Intervals(0..MaxParam)} :
     e.time.min >= e.t0.max}

\* Min(), Mean() and Max() of an exponential expression.
EvalExponential ==
  /\ expr.kind = "exponential"
  /\ value.kind = "none"
  /\ value' = [kind |-> "exponential", min |-> ExponentialMin(expr),
               mean |-> ExponentialMean(expr), max |-> ExponentialMax(expr)]
  /\ UNCHANGED expr
  /\ UNCHANGED <<ftVars, combVars, intVars>>

\* Min(), Mean() and Max() of a Weibull expression.
EvalWeibull ==
  /\ expr.kind = "weibull"
  /\ value.kind = "none"
  /\ value' = [kind |-> "weibull", min |-> WeibullMin(expr),
               mean |-> WeibullMean(expr), max |-> WeibullMax(expr)]
  /\ UNCHANGED expr
  /\ UNCHANGED <<ftVars, combVars, intVars>>

ExprInit ==
  /\ TreeInit
  /\ CombIdle
  /\ IntIdle
  /\ expr \in ExponentialExpressions \cup WeibullExpressions
  /\ value = [kind |-> "none"]

ExprNext == EvalExponential \/ EvalWeibull

ExprSpec == ExprInit /\ [][ExprNext]_vars

\* C14: for a Weibull expression with arguments in the valid domain,
\* Min() <= Mean() <= Max().
C14_WeibullMinMeanMax ==
  value.kind = "weibull" =>
    /\ Leq(value.min, value.mean)
    /\ Leq(value.mean, value.max)

\* C15: for an exponential expression with non-negative arguments,
\* Min() <= Mean() <= Max() and the three values lie in [0, 1].
C15_ExponentialMinMeanMax ==
  value.kind = "exponential" =>
    /\ Leq(value.min, value.mean)
    /\ Leq(value.mean, value.max)
    /\ InUnitInterval(value.min)
    /\ InUnitInterval(value.mean)
    /\ InUnitInterval(value.max)

\* C15 witness: an exponential expression whose rate and time both vary was
\* evaluated, with Min() < Mean() < Max().
C15_Witness ==
  /\ value.kind = "exponential"
  /\ expr.lambda.min < expr.lambda.max
  /\ expr.time.min < expr.time.max
  /\ ~Leq(value.mean, value.min)
  /\ ~Leq(value.max, value.mean)

====
